---- MODULE Spec2Model ----
(***************************************************************************)
(* A model of the Ruge-Stuben setup kernels of pyamg/amg_core/ruge_stuben.h *)
(* Arrays are functions on 0..len-1, CSR matrices are kept as their flat    *)
(* row-pointer / column-index / value arrays, exactly as the kernels get    *)
(* them.  Every kernel is a sequential program; pc is its position.         *)
(***************************************************************************)
EXTENDS Integers, Sequences, FiniteSets, TLC

\* ------------------------------------------------------------------------
\* Node labels (ruge_stuben.h, the #defines before rs_cf_splitting)
F_NODE == 0
C_NODE == 1
U_NODE == 2
PRE_F_NODE == 3

\* ------------------------------------------------------------------------
\* Bounds of the model
MaxN == 3
MaxNnz == 3
MaxInfl == 1
RandMax == 1

VARIABLES
  pc,             \* position of the running kernel
  alg,            \* which kernel runs: "rs", "cljp"
  n,              \* n_nodes
  Sp, Sj,         \* strength matrix S, CSR
  Tp, Tj,         \* T, CSR
  influence,
  splitting,
  \* rs_cf_splitting locals
  lambda, lambda_max, interval_ptr, interval_count,
  index_to_node, node_to_index,
  top_index, i, j, jj, kk,
  init_splitting, \* history: the labels right after the initialization step
  assert_failed,  \* history: assert(splitting[i] == U_NODE) was reached with it false
  \* cljp_naive_splitting locals
  colorflag, weight, edgemark, D, Dlist, nD, unassigned, c_dep_cache,
  pass, iD,
  seed,           \* history: the initial seed weight[i] (colour/ncolors or rand()/RAND_MAX)
  scale,          \* weights are kept as integers: real weight = weight / scale
  prev_unassigned, \* history: unassigned at the start of the current pass
  \* classical_strength_of_connection, maximum_row_value
  Ap, Aj, Ax,     \* the matrix A, CSR
  Sx,             \* values of S
  theta,          \* <<numerator, denominator>> of the tolerance theta
  nnz,
  \* rs_direct_interpolation, rs_standard_interpolation
  Bp, Bj, Bx,     \* the prolongator, CSR; a value of Bx is a fraction <<num, den>>
  wrBj, wrBx,     \* history: stores into each slot by the loop over the rows
  remapped,       \* history: Bj[s] = map[Bj[s]] executions per slot
  \* approx_ideal_restriction_pass1 / pass2
  rowptr, colinds, data,           \* R, CSR
  C_rowptr, C_colinds, C_data,     \* the strength matrix C, CSR
  Cpts, max_row,
  C_data0,        \* history: C_data as passed to pass1
  nf_entry,       \* history: per row of R, |N_f| on entry to the row in pass1
  zeroed,         \* history: per row of R, the positions of C_data set to 0
  found,          \* history: per row of R, strong F neighbours found by pass2
  mismatch,       \* history: the row pointer diagnostic of pass2 was emitted
  \* maximum_row_value
  mrv_x,          \* x[]
  \* cr_helper
  cr_e, cr_B,     \* e[], B[]
  indices, gamma, thetacs, cost,
  Uindex, omega,
  inf_norm,       \* gamma and omega are kept as integers: real value = value / inf_norm
  new_pt,
  n_promoted      \* history: iterations of the while loop that promoted a point

inVars    == <<n, Sp, Sj, Tp, Tj, influence, alg>>
rsVars    == <<lambda, lambda_max, interval_ptr, interval_count, index_to_node,
               node_to_index, top_index, i, j, jj, kk, init_splitting, assert_failed>>
rsVarsNoI == <<lambda, lambda_max, interval_ptr, interval_count, index_to_node,
               node_to_index, top_index, j, jj, kk, init_splitting, assert_failed>>
cljpVars  == <<colorflag, weight, edgemark, D, Dlist, nD, unassigned, c_dep_cache,
               pass, iD, seed, scale, prev_unassigned>>
socVars   == <<Ap, Aj, Ax, Sx, theta, nnz>>
interpVars == <<Bp, Bj, Bx, wrBj, wrBx, remapped>>
airVars   == <<rowptr, colinds, data, C_rowptr, C_colinds, C_data, Cpts, max_row,
               C_data0, nf_entry, zeroed, found, mismatch>>
mrvVars   == <<mrv_x>>
crVars    == <<cr_e, cr_B, indices, gamma, thetacs, cost, Uindex, omega, inf_norm,
               new_pt, n_promoted>>
restVars  == <<mrvVars, crVars>>
auxVars   == <<socVars, interpVars, airVars, restVars>>
vars == <<pc, splitting, inVars, rsVars, cljpVars, auxVars>>

\* ------------------------------------------------------------------------
\* Building the CSR arrays of the caller's matrices
Nodes(m) == 0..(m-1)

Orders == {"asc", "desc"}

Before(e, f, ord) ==
  \/ e[1] < f[1]
  \/ /\ e[1] = f[1]
     /\ IF ord = "asc" THEN e[2] < f[2] ELSE e[2] > f[2]

\* row pointer of the pattern E of an m-row matrix
CsrP(E, m) == [r \in 0..m |-> Cardinality({e \in E : e[1] < r})]

\* column indices of the pattern E, rows in order, columns of a row in order ord
CsrJ(E, ord) ==
  [k \in 0..(Cardinality(E)-1) |->
     (CHOOSE e \in E : Cardinality({f \in E : Before(f, e, ord)}) = k)[2]]

Transpose(E) == {<<e[2], e[1]>> : e \in E}

PatternsIn(cells) == {E \in SUBSET cells : Cardinality(E) <= MaxNnz}

Patterns(m) == PatternsIn(Nodes(m) \X Nodes(m))

\* influence >= 0: at most one node has a nonzero entry, of at most MaxInfl
Influences(m) ==
  {f \in [Nodes(m) -> 0..MaxInfl] :
     \A a \in Nodes(m), b \in Nodes(m) : (f[a] # 0 /\ f[b] # 0) => a = b}

\* faulty variant of Swap: the second store is lost
SwapHalf(f, a, b) == [f EXCEPT ![a] = f[b]]

Swap(f, a, b) == [f EXCEPT ![a] = f[b], ![b] = f[a]]

MaxOf(S) == CHOOSE x \in S : \A y \in S : y <= x

\* ------------------------------------------------------------------------
\* rs_cf_splitting: initialization
Lambda0 == [v \in Nodes(n) |-> Tp[v+1] - Tp[v] + influence[v]]

LambdaMax(lam) ==
  LET m  == MaxOf({lam[v] : v \in Nodes(n)} \cup {0})
      m2 == m * 2
  IN IF n + 1 > m2 THEN n + 1 ELSE m2

\* first loop of the counting sort: the histogram of lambda
CountLambda(lam, lmax) ==
  [l \in 0..(lmax-1) |-> Cardinality({v \in Nodes(n) : lam[v] = l})]

\* second loop: exclusive prefix sums
RECURSIVE CumSum(_, _)
CumSum(cnt, l) == IF l = 0 THEN 0 ELSE CumSum(cnt, l-1) + cnt[l-1]

\* faulty variant of IntervalPtr0: the prefix sums are lost
IntervalPtrZero(cnt, lmax) == [l \in 0..(lmax-1) |-> 0]

IntervalPtr0(cnt, lmax) == [l \in 0..(lmax-1) |-> CumSum(cnt, l)]

\* third loop: place node v at interval_ptr[lambda_v] + interval_count[lambda_v]
RECURSIVE Place(_, _, _, _, _, _)
Place(v, lam, ptr, cnt, i2n, n2i) ==
  IF v = n THEN [cnt |-> cnt, i2n |-> i2n, n2i |-> n2i]
  ELSE LET lambda_i == lam[v]
           index    == ptr[lambda_i] + cnt[lambda_i]
       IN Place(v+1, lam, ptr,
                [cnt EXCEPT ![lambda_i] = @ + 1],
                [i2n EXCEPT ![index] = v],
                [n2i EXCEPT ![v] = index])

\* Tj[p]; p = Tp[n] is one past the end of Tj, where the read finds whatever
\* value oob the memory holds
TjRead(p, oob) == IF p < Tp[n] THEN Tj[p] ELSE oob

InitLabel(v, lam, oob) ==
  IF lam[v] = 0 \/ (lam[v] = 1 /\ TjRead(Tp[v], oob) = v) THEN F_NODE ELSE U_NODE

RSSetup ==
  /\ pc = "start" /\ alg = "rs"
  /\ \E oob \in (-1)..(n-1) :
       LET lam  == Lambda0
           lmax == LambdaMax(lam)
           hist == CountLambda(lam, lmax)
           ptr  == IntervalPtr0(hist, lmax)
           pl   == Place(0, lam, ptr, [l \in 0..(lmax-1) |-> 0],
                         [k \in Nodes(n) |-> 0], [k \in Nodes(n) |-> 0])
           lab  == [v \in Nodes(n) |-> InitLabel(v, lam, oob)]
       IN /\ lambda' = lam
          /\ lambda_max' = lmax
          /\ interval_ptr' = ptr
          /\ interval_count' = pl.cnt
          /\ index_to_node' = pl.i2n
          /\ node_to_index' = pl.n2i
          /\ splitting' = lab
          /\ init_splitting' = lab
  /\ top_index' = n - 1
  /\ pc' = "loop"
  /\ UNCHANGED <<i, j, jj, kk, assert_failed, inVars, auxVars, cljpVars>>

\* ------------------------------------------------------------------------
\* rs_cf_splitting: the main loop, one loop iteration per action

\* the node of the interval of lambda_i with the largest number, if larger than v
RECURSIVE MaxSearch(_, _, _, _)
MaxSearch(p, last, max_node, max_index) ==
  IF p >= last THEN [max_node |-> max_node, max_index |-> max_index]
  ELSE IF index_to_node[p] > max_node
       THEN MaxSearch(p+1, last, index_to_node[p], p)
       ELSE MaxSearch(p+1, last, max_node, max_index)

\* faulty variant of MarkPreF: the test splitting[j] == U_NODE is dropped
MarkPreFAny(spl, c) ==
  [v \in Nodes(n) |->
     IF \E p \in Tp[c]..(Tp[c+1]-1) : Tj[p] = v THEN PRE_F_NODE ELSE spl[v]]

\* faulty variant of MarkPreF: the T-row of the new C point is not marked
MarkPreFNone(spl, c) == spl

\* first loop over T-row c: U_NODE -> PRE_F_NODE
MarkPreF(spl, c) ==
  [v \in Nodes(n) |->
     IF spl[v] = U_NODE /\ \E p \in Tp[c]..(Tp[c+1]-1) : Tj[p] = v
     THEN PRE_F_NODE ELSE spl[v]]

\* top_index reached -1: the function returns
RSReturn ==
  /\ pc = "loop" /\ top_index = -1
  /\ pc' = "done"
  /\ UNCHANGED <<splitting, inVars, auxVars, rsVars, cljpVars>>

\* the node at top_index is an F_NODE: continue
RSSkipF ==
  /\ pc = "loop" /\ top_index # -1
  /\ LET v == index_to_node[top_index]
     IN /\ splitting[v] = F_NODE
        /\ interval_count' = [interval_count EXCEPT ![lambda[v]] = @ - 1]
        /\ i' = v
  /\ top_index' = top_index - 1
  /\ UNCHANGED <<pc, splitting, inVars, auxVars, cljpVars, lambda, lambda_max, interval_ptr,
                 index_to_node, node_to_index, j, jj, kk, init_splitting, assert_failed>>

\* the node at top_index is not an F_NODE: tie-break swap, label C_NODE,
\* mark the U_NODE entries of its T-row PRE_F_NODE
RSSelect ==
  /\ pc = "loop" /\ top_index # -1
  /\ LET v        == index_to_node[top_index]
         lambda_i == lambda[v]
         cnt      == [interval_count EXCEPT ![lambda_i] = @ - 1]
         m        == MaxSearch(interval_ptr[lambda_i],
                               interval_ptr[lambda_i] + cnt[lambda_i], v, top_index)
         n2i      == [[node_to_index EXCEPT ![index_to_node[top_index]] = m.max_index]
                        EXCEPT ![index_to_node[m.max_index]] = top_index]
         i2n      == Swap(index_to_node, top_index, m.max_index)
         c        == i2n[top_index]
     IN /\ splitting[v] # F_NODE
        /\ assert_failed' = (assert_failed \/ splitting[v] # U_NODE)
        /\ interval_count' = cnt
        /\ node_to_index' = n2i
        /\ index_to_node' = i2n
        /\ i' = c
        /\ splitting' = MarkPreF([splitting EXCEPT ![c] = C_NODE], c)
        /\ jj' = Tp[c]
  /\ pc' = "tloop"
  /\ UNCHANGED <<inVars, auxVars, cljpVars, lambda, lambda_max, interval_ptr, top_index,
                 j, kk, init_splitting>>

\* second loop over T-row i: a PRE_F_NODE becomes F_NODE and its S-row is scanned
RSTLoop ==
  /\ pc = "tloop"
  /\ IF jj < Tp[i+1]
     THEN IF splitting[Tj[jj]] = PRE_F_NODE
          THEN /\ splitting' = [splitting EXCEPT ![Tj[jj]] = F_NODE]
               /\ j' = Tj[jj]
               /\ kk' = Sp[Tj[jj]]
               /\ pc' = "kloop"
               /\ UNCHANGED jj
          ELSE /\ jj' = jj + 1
               /\ j' = Tj[jj]
               /\ UNCHANGED <<splitting, kk, pc>>
     ELSE /\ jj' = Sp[i]
          /\ pc' = "sloop"
          /\ UNCHANGED <<splitting, j, kk>>
  /\ UNCHANGED <<inVars, auxVars, cljpVars, lambda, lambda_max, interval_ptr, interval_count,
                 index_to_node, node_to_index, top_index, i, init_splitting, assert_failed>>

\* faulty variant of Clamped: no clamp
ClampedNever(k) == FALSE

\* the clamp of the increment: if (lambda[k] >= n_nodes - 1) continue
Clamped(k) == lambda[k] >= n - 1

\* one entry k of S-row j: a U_NODE k below the clamp moves to the end of its
\* interval and its lambda is incremented
RSIncrement ==
  /\ pc = "kloop"
  /\ IF kk < Sp[j+1]
     THEN LET k == Sj[kk]
          IN /\ IF splitting[k] = U_NODE /\ ~Clamped(k)
                THEN LET lambda_k == lambda[k]
                         old_pos  == node_to_index[k]
                         new_pos  == interval_ptr[lambda_k] + interval_count[lambda_k] - 1
                     IN /\ node_to_index' =
                             [[node_to_index EXCEPT ![index_to_node[old_pos]] = new_pos]
                                EXCEPT ![index_to_node[new_pos]] = old_pos]
                        /\ index_to_node' = Swap(index_to_node, old_pos, new_pos)
                        /\ interval_count' =
                             [[interval_count EXCEPT ![lambda_k] = @ - 1]
                                EXCEPT ![lambda_k + 1] = @ + 1]
                        /\ interval_ptr' = [interval_ptr EXCEPT ![lambda_k + 1] = new_pos]
                        /\ lambda' = [lambda EXCEPT ![k] = @ + 1]
                ELSE UNCHANGED <<node_to_index, index_to_node, interval_count,
                                 interval_ptr, lambda>>
             /\ kk' = kk + 1
             /\ UNCHANGED <<jj, pc>>
     ELSE /\ jj' = jj + 1
          /\ pc' = "tloop"
          /\ UNCHANGED <<node_to_index, index_to_node, interval_count,
                         interval_ptr, lambda, kk>>
  /\ UNCHANGED <<inVars, auxVars, cljpVars, splitting, lambda_max, top_index, i, j,
                 init_splitting, assert_failed>>

\* one entry j of S-row i: a U_NODE j with lambda > 0 moves to the beginning of
\* its interval and its lambda is decremented
RSDecrement ==
  /\ pc = "sloop"
  /\ IF jj < Sp[i+1]
     THEN LET v == Sj[jj]
          IN /\ IF splitting[v] = U_NODE /\ lambda[v] # 0
                THEN LET lambda_j == lambda[v]
                         old_pos  == node_to_index[v]
                         new_pos  == interval_ptr[lambda_j]
                         cnt      == [[interval_count EXCEPT ![lambda_j] = @ - 1]
                                        EXCEPT ![lambda_j - 1] = @ + 1]
                         ptr1     == [interval_ptr EXCEPT ![lambda_j] = @ + 1]
                     IN /\ node_to_index' =
                             [[node_to_index EXCEPT ![index_to_node[old_pos]] = new_pos]
                                EXCEPT ![index_to_node[new_pos]] = old_pos]
                        /\ index_to_node' = Swap(index_to_node, old_pos, new_pos)
                        /\ interval_count' = cnt
                        /\ interval_ptr' =
                             [ptr1 EXCEPT ![lambda_j - 1] = ptr1[lambda_j] - cnt[lambda_j - 1]]
                        /\ lambda' = [lambda EXCEPT ![v] = @ - 1]
                ELSE UNCHANGED <<node_to_index, index_to_node, interval_count,
                                 interval_ptr, lambda>>
             /\ jj' = jj + 1
             /\ j' = v
             /\ UNCHANGED <<top_index, pc>>
     ELSE /\ top_index' = top_index - 1
          /\ pc' = "loop"
          /\ UNCHANGED <<node_to_index, index_to_node, interval_count,
                         interval_ptr, lambda, jj, j>>
  /\ UNCHANGED <<inVars, auxVars, cljpVars, splitting, lambda_max, i, kk,
                 init_splitting, assert_failed>>

NextRS == RSSetup \/ RSReturn \/ RSSkipF \/ RSSelect \/ RSTLoop \/ RSIncrement \/ RSDecrement

\* ------------------------------------------------------------------------
\* cljp_naive_splitting.  weight[] holds doubles seed + (number of edges); the
\* model keeps scale * weight as an integer, scale being the denominator of the
\* seeds (ncolors, or RAND_MAX), so that comparisons and "< 1" are exact.

\* a and b are joined by an entry of S (or of T = S^T)
Adjacent(a, b) ==
  /\ a # b
  /\ \/ \E p \in Sp[a]..(Sp[a+1]-1) : Sj[p] = b
     \/ \E p \in Sp[b]..(Sp[b+1]-1) : Sj[p] = a

\* vertex_coloring_mis (graph.h): colour K is given to a maximal independent
\* set of the nodes that colours 0..K-1 left uncoloured
Colorings ==
  {col \in [Nodes(n) -> Nodes(n)] :
     \A a \in Nodes(n) :
       /\ \A b \in Nodes(n) : Adjacent(a, b) => col[a] # col[b]
       /\ \A c \in 0..(col[a]-1) : \E b \in Nodes(n) : col[b] = c /\ Adjacent(a, b)}

\* rand() for every node: any value of 0..RAND_MAX, equal values included
RandDraws == [Nodes(n) -> 0..RandMax]

\* the number of entries (a,v) of S with a # v: what the loop weight[j]++ adds
InDegree(v) ==
  Cardinality({p \in 0..(Sp[n]-1) :
                 Sj[p] = v /\ \E a \in Nodes(n) : Sp[a] <= p /\ p < Sp[a+1] /\ a # v})

CLJPSetup ==
  /\ pc = "start" /\ alg = "cljp"
  /\ \E sd \in (IF colorflag = 1 THEN Colorings ELSE RandDraws) :
       LET ncolors == MaxOf({sd[v] : v \in Nodes(n)}) + 1
           sc      == IF colorflag = 1 THEN ncolors ELSE RandMax
       IN /\ scale' = sc
          /\ seed' = sd
          /\ weight' = [v \in Nodes(n) |-> sd[v] + sc * InDegree(v)]
  /\ unassigned' = n
  /\ edgemark' = [p \in 0..(Sp[n]-1) |-> 1]
  /\ D' = [v \in Nodes(n) |-> 0]
  /\ Dlist' = [v \in Nodes(n) |-> 0]
  /\ c_dep_cache' = [v \in Nodes(n) |-> -1]
  /\ splitting' = [v \in Nodes(n) |-> U_NODE]
  /\ pass' = 0
  /\ prev_unassigned' = n
  /\ pc' = "while"
  /\ UNCHANGED <<inVars, auxVars, rsVars, colorflag, nD, iD>>

\* faulty variant of InD: a neighbour of equal weight also blocks the node
InDNoTies(v) ==
  /\ splitting[v] = U_NODE
  /\ ~ \E p \in Sp[v]..(Sp[v+1]-1) :
         Sj[p] # v /\ splitting[Sj[p]] = U_NODE /\ weight[Sj[p]] >= weight[v]
  /\ ~ \E p \in Tp[v]..(Tp[v+1]-1) :
         Tj[p] # v /\ splitting[Tj[p]] = U_NODE /\ weight[Tj[p]] >= weight[v]

\* D[v] of the selection loop: no U_NODE entry of S-row v or T-row v has a
\* strictly greater weight
InD(v) ==
  /\ splitting[v] = U_NODE
  /\ ~ \E p \in Sp[v]..(Sp[v+1]-1) :
         splitting[Sj[p]] = U_NODE /\ weight[Sj[p]] > weight[v]
  /\ ~ \E p \in Tp[v]..(Tp[v+1]-1) :
         splitting[Tj[p]] = U_NODE /\ weight[Tj[p]] > weight[v]

\* Dlist after the loop over v = 0..n-1: the selected nodes in ascending order
\* in slots 0..nD-1, the older contents beyond
RECURSIVE FillDlist(_, _, _)
FillDlist(v, dl, cnt) ==
  IF v = n THEN [Dlist |-> dl, nD |-> cnt]
  ELSE IF InD(v) THEN FillDlist(v+1, [dl EXCEPT ![cnt] = v], cnt+1)
       ELSE FillDlist(v+1, dl, cnt)

\* one pass of SELECT INDEPENDENT SET
CLJPSelect ==
  /\ pc = "while" /\ unassigned > 0
  /\ pass <= n
  /\ LET sel == FillDlist(0, Dlist, 0)
     IN /\ D' = [v \in Nodes(n) |-> IF InD(v) THEN 1 ELSE 0]
        /\ Dlist' = sel.Dlist
        /\ nD' = sel.nD
        /\ unassigned' = unassigned - sel.nD
        /\ splitting' = [v \in Nodes(n) |-> IF InD(v) THEN C_NODE ELSE splitting[v]]
  /\ pass' = pass + 1
  /\ prev_unassigned' = unassigned
  /\ iD' = 0
  /\ pc' = IF nD' > 0 THEN "p5" ELSE "while"
  /\ UNCHANGED <<inVars, auxVars, rsVars, colorflag, weight, edgemark, c_dep_cache, seed, scale>>

\* P5 for one c: the entries of S-row c from position p on
RECURSIVE P5Row(_, _, _)
P5Row(p, last, st) ==
  IF p >= last THEN st
  ELSE LET v == Sj[p]
       IN IF st.splitting[v] = U_NODE /\ st.edgemark[p] # 0
          THEN LET w == st.weight[v] - scale
               IN P5Row(p+1, last,
                    [edgemark   |-> [st.edgemark EXCEPT ![p] = 0],
                     weight     |-> [st.weight EXCEPT ![v] = w],
                     splitting  |-> IF w < scale THEN [st.splitting EXCEPT ![v] = F_NODE]
                                    ELSE st.splitting,
                     unassigned |-> IF w < scale THEN st.unassigned - 1 ELSE st.unassigned])
          ELSE P5Row(p+1, last, st)

CLJPState ==
  [edgemark |-> edgemark, weight |-> weight, splitting |-> splitting,
   unassigned |-> unassigned]

\* one iteration iD of the P5 loop; after the last one the P6 loop starts
CLJPP5 ==
  /\ pc = "p5" /\ iD < nD
  /\ LET c  == Dlist[iD]
         st == P5Row(Sp[c], Sp[c+1], CLJPState)
     IN /\ edgemark' = st.edgemark
        /\ weight' = st.weight
        /\ splitting' = st.splitting
        /\ unassigned' = st.unassigned
  /\ iD' = IF iD + 1 < nD THEN iD + 1 ELSE 0
  /\ pc' = IF iD + 1 < nD THEN "p5" ELSE "p6"
  /\ UNCHANGED <<inVars, auxVars, rsVars, colorflag, D, Dlist, nD, c_dep_cache, pass, seed,
                 scale, prev_unassigned>>

\* faulty variant of FillCache: every U_NODE is cached, in T-row c or not
FillCacheAll(cache, c) ==
  [v \in Nodes(n) |-> IF splitting[v] = U_NODE THEN c ELSE cache[v]]

\* P6, first loop over T-row c: c_dep_cache[j] = c for the U_NODE entries j
FillCache(cache, c) ==
  [v \in Nodes(n) |->
     IF splitting[v] = U_NODE /\ \E p \in Tp[c]..(Tp[c+1]-1) : Tj[p] = v
     THEN c ELSE cache[v]]

\* P6, the entries of S-row v from position p on
RECURSIVE P6Row(_, _, _, _, _)
P6Row(p, last, c, cache, st) ==
  IF p >= last THEN st
  ELSE LET k == Sj[p]
       IN IF st.splitting[k] = U_NODE /\ st.edgemark[p] # 0 /\ cache[k] = c
          THEN LET w == st.weight[k] - scale
               IN P6Row(p+1, last, c, cache,
                    [edgemark   |-> [st.edgemark EXCEPT ![p] = 0],
                     weight     |-> [st.weight EXCEPT ![k] = w],
                     splitting  |-> IF w < scale THEN [st.splitting EXCEPT ![k] = F_NODE]
                                    ELSE st.splitting,
                     unassigned |-> IF w < scale THEN st.unassigned - 1 ELSE st.unassigned])
          ELSE P6Row(p+1, last, c, cache, st)

\* P6, second loop over T-row c from position q on: the S-row of every entry
RECURSIVE P6Scan(_, _, _, _, _)
P6Scan(q, last, c, cache, st) ==
  IF q >= last THEN st
  ELSE P6Scan(q+1, last, c, cache, P6Row(Sp[Tj[q]], Sp[Tj[q]+1], c, cache, st))

\* one iteration iD of the P6 loop; after the last one the pass is over
CLJPP6 ==
  /\ pc = "p6" /\ iD < nD
  /\ LET c     == Dlist[iD]
         cache == FillCache(c_dep_cache, c)
         st    == P6Scan(Tp[c], Tp[c+1], c, cache, CLJPState)
     IN /\ c_dep_cache' = cache
        /\ edgemark' = st.edgemark
        /\ weight' = st.weight
        /\ splitting' = st.splitting
        /\ unassigned' = st.unassigned
  /\ iD' = iD + 1
  /\ pc' = IF iD + 1 < nD THEN "p6" ELSE "while"
  /\ UNCHANGED <<inVars, auxVars, rsVars, colorflag, D, Dlist, nD, pass, seed, scale,
                 prev_unassigned>>

\* the selection loop is left: edgemark 0 -> -1, U_NODE -> F_NODE, return
CLJPReturn ==
  /\ pc = "while" /\ ~(unassigned > 0)
  /\ edgemark' = [p \in 0..(Sp[n]-1) |-> IF edgemark[p] = 0 THEN -1 ELSE edgemark[p]]
  /\ splitting' = [v \in Nodes(n) |-> IF splitting[v] = U_NODE THEN F_NODE ELSE splitting[v]]
  /\ pc' = "done"
  /\ UNCHANGED <<inVars, auxVars, rsVars, colorflag, weight, D, Dlist, nD, unassigned,
                 c_dep_cache, pass, iD, seed, scale, prev_unassigned>>

NextCLJP == CLJPSetup \/ CLJPSelect \/ CLJPP5 \/ CLJPP6 \/ CLJPReturn

\* ------------------------------------------------------------------------
\* classical_strength_of_connection.  Values are integers and mynorm is the
\* absolute value; the entries of A are even numbers, so that FMin, which
\* stands for std::numeric_limits<F>::min() (the smallest positive normalized
\* value), lies strictly between 0 and every nonzero magnitude of A.
FMin == 1

mynorm(v) == IF v < 0 THEN -v ELSE v

\* the first loop over row r from position p on: std::max over the
\* off-diagonal entries, starting from max_offdiagonal = m
RECURSIVE MaxOffdiagonal(_, _, _, _)
MaxOffdiagonal(r, p, last, m) ==
  IF p >= last THEN m
  ELSE IF Aj[p] # r
       THEN MaxOffdiagonal(r, p+1, last, IF mynorm(Ax[p]) > m THEN mynorm(Ax[p]) ELSE m)
       ELSE MaxOffdiagonal(r, p+1, last, m)

\* norm_jj >= theta * max_offdiagonal, theta = th[1] / th[2]
ExceedsThreshold(norm_jj, th, max_offdiagonal) ==
  norm_jj * th[2] >= th[1] * max_offdiagonal

\* the second loop over row r from position p on
RECURSIVE FilterRow(_, _, _, _, _)
FilterRow(r, p, last, max_offdiagonal, out) ==
  IF p >= last THEN out
  ELSE LET strong == ExceedsThreshold(mynorm(Ax[p]), theta, max_offdiagonal) /\ Aj[p] # r
           o1 == IF strong
                 THEN [Sj  |-> [out.Sj EXCEPT ![out.nnz] = Aj[p]],
                       Sx  |-> [out.Sx EXCEPT ![out.nnz] = Ax[p]],
                       nnz |-> out.nnz + 1]
                 ELSE out
           o2 == IF Aj[p] = r
                 THEN [Sj  |-> [o1.Sj EXCEPT ![o1.nnz] = Aj[p]],
                       Sx  |-> [o1.Sx EXCEPT ![o1.nnz] = Ax[p]],
                       nnz |-> o1.nnz + 1]
                 ELSE o1
       IN FilterRow(r, p+1, last, max_offdiagonal, o2)

SOCBegin ==
  /\ pc = "start" /\ alg = "soc"
  /\ nnz' = 0
  /\ Sp' = [Sp EXCEPT ![0] = 0]
  /\ i' = 0
  /\ pc' = "soc"
  /\ UNCHANGED <<splitting, n, Sj, Tp, Tj, influence, alg, rsVarsNoI, cljpVars, interpVars, airVars, restVars,
                 Ap, Aj, Ax, Sx, theta>>

\* one iteration of the loop over the rows
SOCRow ==
  /\ pc = "soc" /\ i < n
  /\ LET max_offdiagonal == MaxOffdiagonal(i, Ap[i], Ap[i+1], FMin)
         out == FilterRow(i, Ap[i], Ap[i+1], max_offdiagonal,
                          [Sj |-> Sj, Sx |-> Sx, nnz |-> nnz])
     IN /\ Sj' = out.Sj
        /\ Sx' = out.Sx
        /\ nnz' = out.nnz
        /\ Sp' = [Sp EXCEPT ![i+1] = out.nnz]
  /\ i' = i + 1
  /\ UNCHANGED <<pc, splitting, n, Tp, Tj, influence, alg, rsVarsNoI, cljpVars, interpVars, airVars, restVars,
                 Ap, Aj, Ax, theta>>

SOCReturn ==
  /\ pc = "soc" /\ ~(i < n)
  /\ pc' = "done"
  /\ UNCHANGED <<splitting, inVars, rsVars, cljpVars, auxVars>>

NextSOC == SOCBegin \/ SOCRow \/ SOCReturn

\* ------------------------------------------------------------------------
\* rs_direct_interpolation_pass1/2 and rs_standard_interpolation_pass1/2.
\* The entries of A are integers; a weight of P is the fraction <<num, den>>,
\* and a fraction of denominator 0 is the non-finite result of a division by 0.
RInt(v) == <<v, 1>>
RNeg(a) == <<-a[1], a[2]>>
RAdd(a, b) == <<a[1]*b[2] + b[1]*a[2], a[2]*b[2]>>
RMul(a, b) == <<a[1]*b[1], a[2]*b[2]>>
RDiv(a, b) == <<a[1]*b[2], a[2]*b[1]>>

\* (splitting[Sj[jj]] == C_NODE) && (Sj[jj] != i)
CNeighbor(r, p) == splitting[Sj[p]] = C_NODE /\ Sj[p] # r

\* the inner loop of pass1 over row r
RECURSIVE CountCNeighbors(_, _, _, _)
CountCNeighbors(r, p, last, cnt) ==
  IF p >= last THEN cnt
  ELSE CountCNeighbors(r, p+1, last, IF CNeighbor(r, p) THEN cnt + 1 ELSE cnt)

\* pass1: the loop over the rows from row r on, nz entries counted so far
RECURSIVE Pass1Rows(_, _, _)
Pass1Rows(r, nz, bp) ==
  IF r >= n THEN bp
  ELSE LET nz2 == IF splitting[r] = C_NODE THEN nz + 1
                  ELSE CountCNeighbors(r, Sp[r], Sp[r+1], nz)
       IN Pass1Rows(r+1, nz2, [bp EXCEPT ![r+1] = nz2])

\* pass1 of either interpolator; the caller then allocates Bj and Bx with
\* Bp[n_nodes] slots
InterpPass1 ==
  /\ pc = "start" /\ alg \in {"direct", "standard"}
  /\ Bp' = Pass1Rows(0, 0, [Bp EXCEPT ![0] = 0])
  /\ Bj' = [s \in 0..(Bp'[n]-1) |-> -1]
  /\ Bx' = [s \in 0..(Bp'[n]-1) |-> <<0, 0>>]
  /\ wrBj' = [s \in 0..(Bp'[n]-1) |-> 0]
  /\ wrBx' = [s \in 0..(Bp'[n]-1) |-> 0]
  /\ remapped' = [s \in 0..(Bp'[n]-1) |-> 0]
  /\ i' = 0
  /\ pc' = "pass2"
  /\ UNCHANGED <<splitting, inVars, rsVarsNoI, cljpVars, socVars, airVars, restVars>>

\* Bj[at] = col; Bx[at] = val
Store(out, at, col, val) ==
  [Bj |-> [out.Bj EXCEPT ![at] = col], Bx |-> [out.Bx EXCEPT ![at] = val],
   wj |-> [out.wj EXCEPT ![at] = @ + 1], wx |-> [out.wx EXCEPT ![at] = @ + 1]]

BOut == [Bj |-> Bj, Bx |-> Bx, wj |-> wrBj, wx |-> wrBx]

\* sum of Sx over the strong C neighbours of row r with Sx < 0 (neg) or not
RECURSIVE SumStrong(_, _, _, _, _)
SumStrong(r, p, last, neg, acc) ==
  IF p >= last THEN acc
  ELSE SumStrong(r, p+1, last, neg,
                 IF CNeighbor(r, p) /\ ((Sx[p] < 0) = neg) THEN acc + Sx[p] ELSE acc)

\* sum of Ax over row r: what = "diag", or the off-diagonal "neg" / "pos" entries
RECURSIVE SumAll(_, _, _, _, _)
SumAll(r, p, last, what, acc) ==
  IF p >= last THEN acc
  ELSE LET hit == IF Aj[p] = r THEN what = "diag"
                  ELSE IF Ax[p] < 0 THEN what = "neg" ELSE what = "pos"
       IN SumAll(r, p+1, last, what, IF hit THEN acc + Ax[p] ELSE acc)

\* the last loop of the direct row
RECURSIVE DirectFill(_, _, _, _, _, _, _)
DirectFill(r, p, last, nz, neg_coeff, pos_coeff, out) ==
  IF p >= last THEN out
  ELSE IF CNeighbor(r, p)
       THEN DirectFill(r, p+1, last, nz+1, neg_coeff, pos_coeff,
                       Store(out, nz, Sj[p],
                             IF Sx[p] < 0 THEN RMul(neg_coeff, RInt(Sx[p]))
                                          ELSE RMul(pos_coeff, RInt(Sx[p]))))
       ELSE DirectFill(r, p+1, last, nz, neg_coeff, pos_coeff, out)

DirectRowOut(r) ==
  IF splitting[r] = C_NODE THEN Store(BOut, Bp[r], r, RInt(1))
  ELSE LET sum_strong_pos == SumStrong(r, Sp[r], Sp[r+1], FALSE, 0)
           sum_strong_neg == SumStrong(r, Sp[r], Sp[r+1], TRUE, 0)
           sum_all_pos == SumAll(r, Ap[r], Ap[r+1], "pos", 0)
           sum_all_neg == SumAll(r, Ap[r], Ap[r+1], "neg", 0)
           diag0 == SumAll(r, Ap[r], Ap[r+1], "diag", 0)
           alpha == <<sum_all_neg, sum_strong_neg>>
           beta == IF sum_strong_pos = 0 THEN RInt(0) ELSE <<sum_all_pos, sum_strong_pos>>
           diag == IF sum_strong_pos = 0 THEN diag0 + sum_all_pos ELSE diag0
           neg_coeff == RDiv(RNeg(alpha), RInt(diag))
           pos_coeff == RDiv(RNeg(beta), RInt(diag))
       IN DirectFill(r, Sp[r], Sp[r+1], Bp[r], neg_coeff, pos_coeff, BOut)

\* one iteration of the loop over the rows of rs_direct_interpolation_pass2
DirectRow ==
  /\ pc = "pass2" /\ alg = "direct" /\ i < n
  /\ LET out == DirectRowOut(i)
     IN Bj' = out.Bj /\ Bx' = out.Bx /\ wrBj' = out.wj /\ wrBx' = out.wx
  /\ i' = i + 1
  /\ UNCHANGED <<pc, splitting, inVars, rsVarsNoI, cljpVars, socVars, airVars, restVars, Bp, remapped>>

\* denominator: the sum of row r of A ...
RECURSIVE RowSumA(_, _, _)
RowSumA(p, last, acc) == IF p >= last THEN acc ELSE RowSumA(p+1, last, acc + Ax[p])

\* ... minus the strong off-diagonal connections of row r
RECURSIVE SubStrong(_, _, _, _)
SubStrong(r, p, last, acc) ==
  IF p >= last THEN acc
  ELSE SubStrong(r, p+1, last, IF Sj[p] # r THEN acc - Sx[p] ELSE acc)

\* the search over row k of A for the connection to column c
RECURSIVE SearchA(_, _, _, _)
SearchA(c, p, last, a) ==
  IF p >= last THEN a ELSE SearchA(c, p+1, last, IF Aj[p] = c THEN Ax[p] ELSE a)

\* the search over row k of A for a_kl of the same sign as a_kj
RECURSIVE SearchSameSign(_, _, _, _, _)
SearchSameSign(l, a_kj, p, last, acc) ==
  IF p >= last THEN acc
  ELSE SearchSameSign(l, a_kj, p+1, last,
                      IF Aj[p] = l /\ a_kj * Ax[p] > 0 THEN acc + Ax[p] ELSE acc)

\* inner_denominator: the loop ll over the strong C neighbours l of row r
RECURSIVE InnerDenominator(_, _, _, _, _, _)
InnerDenominator(r, k, a_kj, ll, last, acc) ==
  IF ll >= last THEN acc
  ELSE InnerDenominator(r, k, a_kj, ll+1, last,
                        IF CNeighbor(r, ll)
                        THEN SearchSameSign(Sj[ll], a_kj, Ap[k], Ap[k+1], acc)
                        ELSE acc)

\* numerator: the loop kk (here pk) over the strong F neighbours k of row r, for column c
RECURSIVE Numerator(_, _, _, _, _)
Numerator(r, c, pk, last, acc) ==
  IF pk >= last THEN acc
  ELSE IF splitting[Sj[pk]] = F_NODE /\ Sj[pk] # r
       THEN LET k == Sj[pk]
                a_kj == SearchA(c, Ap[k], Ap[k+1], 0)
                inner_denominator == InnerDenominator(r, k, a_kj, Sp[r], Sp[r+1], 0)
            IN Numerator(r, c, pk+1, last,
                         IF a_kj # 0
                         THEN RAdd(acc, <<Sx[pk] * a_kj, inner_denominator>>)
                         ELSE acc)
       ELSE Numerator(r, c, pk+1, last, acc)

\* the loop jj of the standard row
RECURSIVE StandardFill(_, _, _, _, _, _)
StandardFill(r, p, last, nz, denominator, out) ==
  IF p >= last THEN out
  ELSE IF CNeighbor(r, p)
       THEN LET numerator == Numerator(r, Sj[p], Sp[r], Sp[r+1], RInt(Sx[p]))
            IN StandardFill(r, p+1, last, nz+1, denominator,
                            Store(out, nz, Sj[p], RDiv(RNeg(numerator), RInt(denominator))))
       ELSE StandardFill(r, p+1, last, nz, denominator, out)

StandardRowOut(r) ==
  IF splitting[r] = C_NODE THEN Store(BOut, Bp[r], r, RInt(1))
  ELSE LET denominator == SubStrong(r, Sp[r], Sp[r+1], RowSumA(Ap[r], Ap[r+1], 0))
       IN StandardFill(r, Sp[r], Sp[r+1], Bp[r], denominator, BOut)

\* one iteration of the loop over the rows of rs_standard_interpolation_pass2
StandardRow ==
  /\ pc = "pass2" /\ alg = "standard" /\ i < n
  /\ LET out == StandardRowOut(i)
     IN Bj' = out.Bj /\ Bx' = out.Bx /\ wrBj' = out.wj /\ wrBx' = out.wx
  /\ i' = i + 1
  /\ UNCHANGED <<pc, splitting, inVars, rsVarsNoI, cljpVars, socVars, airVars, restVars, Bp, remapped>>

\* faulty variant of MapFrom: sum is increased before map[i] is stored
RECURSIVE MapFromAfter(_, _, _)
MapFromAfter(r, sum, m) ==
  IF r >= n THEN m
  ELSE MapFromAfter(r+1, sum + splitting[r], [m EXCEPT ![r] = sum + splitting[r]])

\* map[i] = sum; sum += splitting[i]
RECURSIVE MapFrom(_, _, _)
MapFrom(r, sum, m) ==
  IF r >= n THEN m ELSE MapFrom(r+1, sum + splitting[r], [m EXCEPT ![r] = sum])

\* the end of pass2 of either interpolator: the map and Bj[s] = map[Bj[s]]
InterpRemap ==
  /\ pc = "pass2" /\ ~(i < n)
  /\ LET map == MapFrom(0, 0, [v \in Nodes(n) |-> 0])
     IN Bj' = [s \in DOMAIN Bj |-> IF s < Bp[n] THEN map[Bj[s]] ELSE Bj[s]]
  /\ remapped' = [s \in DOMAIN remapped |-> IF s < Bp[n] THEN remapped[s] + 1 ELSE remapped[s]]
  /\ pc' = "done"
  /\ UNCHANGED <<splitting, inVars, rsVars, cljpVars, socVars, airVars, restVars, Bp, Bx, wrBj, wrBx>>

NextInterp == InterpPass1 \/ DirectRow \/ StandardRow \/ InterpRemap

\* ------------------------------------------------------------------------
\* approx_ideal_restriction_pass1 / pass2.  The values of C are integers, and
\* a stored 0 is the value whose magnitude does not exceed 1e-16.
Cpts_size == Cardinality(DOMAIN Cpts)

\* (splitting[C_colinds[p]] == F_NODE) && (std::abs(C_data[p]) > 1e-16)
StrongF(p, cd) == splitting[C_colinds[p]] = F_NODE /\ mynorm(cd[p]) > 0

\* faulty variant of Neighborhood: the magnitude of C_data is not tested
RECURSIVE NeighborhoodAnyValue(_, _, _)
NeighborhoodAnyValue(p, last, nb) ==
  IF p >= last THEN nb
  ELSE NeighborhoodAnyValue(p+1, last,
                            IF splitting[C_colinds[p]] = F_NODE
                            THEN Append(nb, <<p, C_data[p]>>) ELSE nb)

\* pass1: the neighborhood vector of the C-row from position p on, as the
\* sequence of the pairs <<position, value>>
RECURSIVE Neighborhood(_, _, _)
Neighborhood(p, last, nb) ==
  IF p >= last THEN nb
  ELSE Neighborhood(p+1, last,
                    IF StrongF(p, C_data) THEN Append(nb, <<p, C_data[p]>>) ELSE nb)

\* the outcomes of std::sort with sort_2nd: the orderings of nb in which no
\* element is followed by one of a smaller second component
Sorted(nb) ==
  {sq \in [1..Len(nb) -> {nb[k] : k \in 1..Len(nb)}] :
     /\ \A a, b \in 1..Len(nb) : a # b => sq[a] # sq[b]
     /\ \A a, b \in 1..Len(nb) : a < b => ~(sq[b][2] < sq[a][2])}

\* for (i = max_row; i < size; i++) C_data[neighborhood[i].first] = 0
ZeroTail(sq, mr, cd) ==
  [p \in DOMAIN cd |->
     IF \E k \in (mr+1)..Len(sq) : sq[k][1] = p THEN 0 ELSE cd[p]]

\* faulty variant of RowNnz: the row is not truncated to max_row
RowNnzNoMin(size, mr) == 1 + size

\* 1 + std::min(size, max_row)
RowNnz(size, mr) == 1 + (IF size < mr THEN size ELSE mr)

AIRPass1Begin ==
  /\ pc = "start" /\ alg = "air"
  /\ nnz' = 0
  /\ rowptr' = [rowptr EXCEPT ![0] = 0]
  /\ i' = 0
  /\ pc' = "air1"
  /\ UNCHANGED <<splitting, inVars, rsVarsNoI, cljpVars, interpVars, restVars,
                 Ap, Aj, Ax, Sx, theta, colinds, data, C_rowptr, C_colinds, C_data,
                 Cpts, max_row, C_data0, nf_entry, zeroed, found, mismatch>>

\* one iteration of the loop over the rows of R in pass1
AIRPass1Row ==
  /\ pc = "air1" /\ i < Cpts_size
  /\ LET cpoint == Cpts[i]
         nb == Neighborhood(C_rowptr[cpoint], C_rowptr[cpoint+1], <<>>)
         size == Len(nb)
     IN /\ IF size > max_row
           THEN \E sq \in Sorted(nb) :
                  /\ C_data' = ZeroTail(sq, max_row, C_data)
                  /\ zeroed' = [zeroed EXCEPT ![i] = {sq[k][1] : k \in (max_row+1)..size}]
           ELSE UNCHANGED <<C_data, zeroed>>
        /\ nnz' = nnz + RowNnz(size, max_row)
        /\ rowptr' = [rowptr EXCEPT ![i+1] = nnz']
        /\ nf_entry' = [nf_entry EXCEPT ![i] =
             Cardinality({p \in C_rowptr[cpoint]..(C_rowptr[cpoint+1]-1) :
                            splitting[C_colinds[p]] = F_NODE /\ C_data[p] # 0})]
  /\ i' = i + 1
  /\ UNCHANGED <<pc, splitting, inVars, rsVarsNoI, cljpVars, interpVars, restVars,
                 Ap, Aj, Ax, Sx, theta, colinds, data, C_rowptr, C_colinds,
                 Cpts, max_row, C_data0, found, mismatch>>

\* pass1 returns; the caller allocates colinds and data with rowptr[Cpts_size]
\* slots and calls pass2
AIRPass2Begin ==
  /\ pc = "air1" /\ ~(i < Cpts_size)
  /\ colinds' = [s \in 0..(rowptr[Cpts_size]-1) |-> -1]
  /\ data' = [s \in 0..(rowptr[Cpts_size]-1) |-> [kind |-> "unset", A0 |-> <<>>, b0 |-> <<>>, j |-> 0]]
  /\ i' = 0
  /\ pc' = "air2"
  /\ UNCHANGED <<splitting, inVars, rsVarsNoI, cljpVars, interpVars, restVars,
                 Ap, Aj, Ax, Sx, theta, nnz, rowptr, C_rowptr, C_colinds, C_data,
                 Cpts, max_row, C_data0, nf_entry, zeroed, found, mismatch>>

\* pass2: the first loop of a row, storing the strong F columns from slot ind on
RECURSIVE Pass2Cols(_, _, _, _)
Pass2Cols(p, last, ind, ci) ==
  IF p >= last THEN [ind |-> ind, colinds |-> ci]
  ELSE IF StrongF(p, C_data)
       THEN Pass2Cols(p+1, last, ind+1, [ci EXCEPT ![ind] = C_colinds[p]])
       ELSE Pass2Cols(p+1, last, ind, ci)

\* the search over row r of A for column c: the first match, or 0
RECURSIVE FindA(_, _, _, _)
FindA(r, c, k, last) ==
  IF k >= last THEN 0
  ELSE IF c = Aj[k] THEN Ax[k] ELSE FindA(r, c, k+1, last)

\* A0: for each slot sj of the row, the entries of row ci[sj] of A at the
\* columns ci[first..ind-1]
RECURSIVE LocalA0(_, _, _, _, _)
LocalA0(sj, first, ind, ci, acc) ==
  IF sj >= ind THEN acc
  ELSE LocalA0(sj+1, first, ind, ci,
               acc \o [q \in 1..(ind-first) |->
                         FindA(ci[sj], ci[first+q-1], Ap[ci[sj]], Ap[ci[sj]+1])])

\* b0: the entries of row cpoint of A at the columns ci[first..ind-1]
LocalB0(cpoint, first, ind, ci) ==
  [q \in 1..(ind-first) |-> FindA(cpoint, ci[first+q-1], Ap[cpoint], Ap[cpoint+1])]

\* least_squares (linalg.h): component q of the solution of the size x size
\* system A0 x = b0, kept symbolic
least_squares(A0, b0, size) ==
  [q \in 0..(size-1) |-> [kind |-> "ls", A0 |-> A0, b0 |-> b0, j |-> q]]

\* one iteration of the loop over the rows of R in pass2
AIRPass2Row ==
  /\ pc = "air2" /\ i < Cpts_size
  /\ LET cpoint == Cpts[i]
         cols == Pass2Cols(C_rowptr[cpoint], C_rowptr[cpoint+1], rowptr[i], colinds)
         ind == cols.ind
         size_N == ind - rowptr[i]
         A0 == LocalA0(rowptr[i], rowptr[i], ind, cols.colinds, <<>>)
         b0 == LocalB0(cpoint, rowptr[i], ind, cols.colinds)
         x == least_squares(A0, b0, size_N)
     IN /\ mismatch' = (mismatch \/ ind # rowptr[i+1] - 1)
        /\ found' = [found EXCEPT ![i] = size_N]
        /\ colinds' = [cols.colinds EXCEPT ![ind] = cpoint]
        /\ data' = [s \in DOMAIN data |->
                      IF s = ind THEN [kind |-> "one", A0 |-> <<>>, b0 |-> <<>>, j |-> 0]
                      ELSE IF rowptr[i] <= s /\ s < ind THEN x[s - rowptr[i]]
                      ELSE data[s]]
  /\ i' = i + 1
  /\ UNCHANGED <<pc, splitting, inVars, rsVarsNoI, cljpVars, interpVars, restVars,
                 Ap, Aj, Ax, Sx, theta, nnz, rowptr, C_rowptr, C_colinds, C_data,
                 Cpts, max_row, C_data0, nf_entry, zeroed>>

AIRPass2Return ==
  /\ pc = "air2" /\ ~(i < Cpts_size)
  /\ pc' = "done"
  /\ UNCHANGED <<splitting, inVars, rsVars, cljpVars, auxVars>>

NextAIR == AIRPass1Begin \/ AIRPass1Row \/ AIRPass2Begin \/ AIRPass2Row \/ AIRPass2Return

\* ------------------------------------------------------------------------
\* maximum_row_value, with the values of classical_strength_of_connection:
\* max_entry starts at FMin, std::numeric_limits<F>::min()
RECURSIVE MaxEntry(_, _, _)
MaxEntry(p, last, m) ==
  IF p >= last THEN m
  ELSE MaxEntry(p+1, last, IF mynorm(Ax[p]) > m THEN mynorm(Ax[p]) ELSE m)

\* one iteration of the loop over the rows
MRVRow ==
  /\ alg = "mrv" /\ pc = "start" /\ i < n
  /\ mrv_x' = [mrv_x EXCEPT ![i] = MaxEntry(Ap[i], Ap[i+1], FMin)]
  /\ i' = i + 1
  /\ UNCHANGED <<pc, splitting, inVars, rsVarsNoI, cljpVars, socVars, interpVars, airVars,
                 crVars>>

MRVReturn ==
  /\ alg = "mrv" /\ pc = "start" /\ ~(i < n)
  /\ pc' = "done"
  /\ UNCHANGED <<splitting, inVars, rsVars, cljpVars, auxVars>>

NextMRV == MRVRow \/ MRVReturn

\* ------------------------------------------------------------------------
\* cr_helper.  A is A_rowptr = Ap, A_colinds = Aj.  e and B are integers with
\* B[pt] dividing e[pt]; gamma and omega are kept as integers, the real value
\* being value / inf_norm (inf_norm = 0: the quotient e[pt] / inf_norm is NaN
\* and compares false with thetacs).
AbsQuot(a, b) == mynorm(a) \div mynorm(b)

\* the loop over indices[1..num_Fpts] from position k on: e[pt] = |e[pt]/B[pt]|
RECURSIVE ScaleE(_, _, _)
ScaleE(k, num_Fpts, ev) ==
  IF k >= num_Fpts + 1 THEN ev
  ELSE ScaleE(k+1, num_Fpts, [ev EXCEPT ![indices[k]] = AbsQuot(ev[indices[k]], cr_B[indices[k]])])

RECURSIVE InfNorm(_, _, _, _)
InfNorm(k, num_Fpts, ev, m) ==
  IF k >= num_Fpts + 1 THEN m
  ELSE InfNorm(k+1, num_Fpts, ev, IF ev[indices[k]] > m THEN ev[indices[k]] ELSE m)

\* gamma[pt] > thetacs, gamma[pt] = g / nrm
AboveThetacs(g, nrm) == nrm > 0 /\ g * thetacs[2] > thetacs[1] * nrm

\* the candidate loop from position k on: Uindex.push_back(pt)
RECURSIVE Candidates(_, _, _, _, _)
Candidates(k, num_Fpts, ev, nrm, U) ==
  IF k >= num_Fpts + 1 THEN U
  ELSE Candidates(k+1, num_Fpts, ev, nrm,
                  IF AboveThetacs(ev[indices[k]], nrm) THEN Append(U, indices[k]) ELSE U)

\* num_neighbors of pt: the entries of row pt of A whose column has splitting 0
NumNeighbors(pt) ==
  Cardinality({q \in Ap[pt]..(Ap[pt+1]-1) : splitting[Aj[q]] = 0})

\* steps 3.1d - 3.1f up to the while loop
CRMeasure ==
  /\ alg = "cr" /\ pc = "start"
  /\ LET num_Fpts == indices[0]
         ev  == ScaleE(1, num_Fpts, cr_e)
         nrm == InfNorm(1, num_Fpts, ev, 0)
         U   == Candidates(1, num_Fpts, ev, nrm, <<>>)
         InU(v) == \E k \in 1..Len(U) : U[k] = v
     IN /\ cr_e' = ev
        /\ inf_norm' = nrm
        /\ gamma' = [v \in Nodes(n) |->
                       IF \E k \in 1..num_Fpts : indices[k] = v THEN ev[v] ELSE gamma[v]]
        /\ Uindex' = U
        /\ omega' = [v \in Nodes(n) |->
                       IF InU(v) THEN NumNeighbors(v) * nrm + ev[v] ELSE 0]
        /\ cost' = RAdd(RAdd(cost, <<num_Fpts, Ap[n]>>), <<num_Fpts, Ap[n]>>)
  /\ pc' = "cr_loop"
  /\ UNCHANGED <<splitting, inVars, rsVars, cljpVars, socVars, interpVars, airVars, mrvVars,
                 cr_B, indices, thetacs, new_pt, n_promoted>>

\* step 1 of the while loop from position k of Uindex on
RECURSIVE MaxWeight(_, _, _)
MaxWeight(k, max_weight, pt) ==
  IF k > Len(Uindex) THEN pt
  ELSE IF omega[Uindex[k]] > max_weight
       THEN MaxWeight(k+1, omega[Uindex[k]], Uindex[k])
       ELSE MaxWeight(k+1, max_weight, pt)

\* step 2: omega[temp] = 0 for the entries of row c from position q on
RECURSIVE ZeroNeighbors(_, _, _)
ZeroNeighbors(q, last, om) ==
  IF q >= last THEN om ELSE ZeroNeighbors(q+1, last, [om EXCEPT ![Aj[q]] = 0])

\* step 3, the inner loop over row pt from position q on
RECURSIVE BumpRow(_, _, _)
BumpRow(q, last, om) ==
  IF q >= last THEN om
  ELSE BumpRow(q+1, last, IF om[Aj[q]] # 0 THEN [om EXCEPT ![Aj[q]] = @ + inf_norm] ELSE om)

\* step 3, the loop over neighbors, the entries of row c from position q on
RECURSIVE BumpNeighbors(_, _, _)
BumpNeighbors(q, last, om) ==
  IF q >= last THEN om
  ELSE BumpNeighbors(q+1, last, BumpRow(Ap[Aj[q]], Ap[Aj[q]+1], om))

\* one iteration of the while loop that finds a point of positive weight; the
\* count of the iterations is capped one above the number of nodes
CRPromote ==
  /\ alg = "cr" /\ pc = "cr_loop"
  /\ n_promoted <= n
  /\ LET c == MaxWeight(1, 0, -1)
     IN /\ ~(c < 0)
        /\ new_pt' = c
        /\ splitting' = [splitting EXCEPT ![c] = 1]
        /\ gamma' = [gamma EXCEPT ![c] = 0]
        /\ omega' = BumpNeighbors(Ap[c], Ap[c+1], ZeroNeighbors(Ap[c], Ap[c+1], omega))
  /\ n_promoted' = n_promoted + 1
  /\ UNCHANGED <<pc, inVars, rsVars, cljpVars, socVars, interpVars, airVars, mrvVars,
                 cr_e, cr_B, indices, thetacs, cost, Uindex, inf_norm>>

\* the reordering loop with next_Cind left in place
RECURSIVE ReorderNoStep(_, _, _, _)
ReorderNoStep(v, next_Find, next_Cind, ind) ==
  IF v >= n THEN ind
  ELSE IF splitting[v] = 0
       THEN ReorderNoStep(v+1, next_Find + 1, next_Cind,
                          [ind EXCEPT ![next_Find] = v, ![0] = @ + 1])
       ELSE ReorderNoStep(v+1, next_Find, next_Cind, [ind EXCEPT ![next_Cind] = v])

\* the reordering loop from node v on
RECURSIVE Reorder(_, _, _, _)
Reorder(v, next_Find, next_Cind, ind) ==
  IF v >= n THEN ind
  ELSE IF splitting[v] = 0
       THEN Reorder(v+1, next_Find + 1, next_Cind,
                    [ind EXCEPT ![next_Find] = v, ![0] = @ + 1])
       ELSE Reorder(v+1, next_Find, next_Cind - 1, [ind EXCEPT ![next_Cind] = v])

\* no point of positive weight is left: break, reorder indices, return
CRReorder ==
  /\ alg = "cr" /\ pc = "cr_loop"
  /\ MaxWeight(1, 0, -1) < 0
  /\ new_pt' = -1
  /\ indices' = Reorder(0, 1, n, [indices EXCEPT ![0] = 0])
  /\ pc' = "done"
  /\ UNCHANGED <<splitting, inVars, rsVars, cljpVars, socVars, interpVars, airVars, mrvVars,
                 cr_e, cr_B, gamma, thetacs, cost, Uindex, omega, inf_norm, n_promoted>>

NextCR == CRMeasure \/ CRPromote \/ CRReorder

\* ------------------------------------------------------------------------
RSIdle ==
  /\ lambda = <<>> /\ lambda_max = 0 /\ interval_ptr = <<>> /\ interval_count = <<>>
  /\ index_to_node = <<>> /\ node_to_index = <<>>
  /\ top_index = 0 /\ i = 0 /\ j = 0 /\ jj = 0 /\ kk = 0
  /\ init_splitting = <<>> /\ assert_failed = FALSE

CLJPLocalsIdle ==
  /\ weight = <<>> /\ edgemark = <<>> /\ D = <<>> /\ Dlist = <<>>
  /\ nD = 0 /\ unassigned = 0 /\ c_dep_cache = <<>> /\ pass = 0 /\ iD = 0
  /\ seed = <<>> /\ scale = 1 /\ prev_unassigned = 0

SOCIdle ==
  /\ Ap = <<>> /\ Aj = <<>> /\ Ax = <<>> /\ Sx = <<>> /\ theta = <<0, 1>> /\ nnz = 0

InterpIdle ==
  /\ Bp = <<>> /\ Bj = <<>> /\ Bx = <<>> /\ wrBj = <<>> /\ wrBx = <<>> /\ remapped = <<>>

AIRIdle ==
  /\ rowptr = <<>> /\ colinds = <<>> /\ data = <<>>
  /\ C_rowptr = <<>> /\ C_colinds = <<>> /\ C_data = <<>> /\ C_data0 = <<>>
  /\ Cpts = <<>> /\ max_row = 0
  /\ nf_entry = <<>> /\ zeroed = <<>> /\ found = <<>> /\ mismatch = FALSE

MRVIdle == mrv_x = <<>>

CRIdle ==
  /\ cr_e = <<>> /\ cr_B = <<>> /\ indices = <<>> /\ gamma = <<>> /\ thetacs = <<0, 1>>
  /\ cost = <<0, 1>> /\ Uindex = <<>> /\ omega = <<>> /\ inf_norm = 0
  /\ new_pt = -1 /\ n_promoted = 0

RestIdle == MRVIdle /\ CRIdle

AuxIdle == SOCIdle /\ InterpIdle /\ AIRIdle /\ RestIdle

\* the caller's arguments: a pattern S of at most MaxNnz entries on n <= MaxN
\* nodes, T its transpose, influence >= 0; the columns of a row are stored in
\* increasing or in decreasing order
InitRS ==
  /\ pc = "start" /\ alg = "rs"
  /\ n \in 1..MaxN
  /\ \E E \in Patterns(n) : \E ord \in Orders :
       /\ Sp = CsrP(E, n) /\ Sj = CsrJ(E, ord)
       /\ Tp = CsrP(Transpose(E), n) /\ Tj = CsrJ(Transpose(E), ord)
  /\ influence \in Influences(n)
  /\ splitting = [v \in Nodes(n) |-> -1]   \* the caller's buffer, not yet written
  /\ colorflag = 0
  /\ RSIdle /\ CLJPLocalsIdle /\ AuxIdle

\* the caller's arguments: S and T as above, with sorted column indices
InitCLJP ==
  /\ pc = "start" /\ alg = "cljp"
  /\ n \in 1..MaxN
  /\ \E E \in Patterns(n) :
       /\ Sp = CsrP(E, n) /\ Sj = CsrJ(E, "asc")
       /\ Tp = CsrP(Transpose(E), n) /\ Tj = CsrJ(Transpose(E), "asc")
  /\ influence = [v \in Nodes(n) |-> 0]
  /\ splitting = [v \in Nodes(n) |-> -1]
  /\ colorflag \in {0, 1}
  /\ RSIdle /\ CLJPLocalsIdle /\ AuxIdle

\* both splitters
Init == InitRS \/ InitCLJP
Next == NextRS \/ NextCLJP
Spec == Init /\ [][Next]_vars

\* rs_cf_splitting alone
SpecRS == InitRS /\ [][NextRS]_vars

\* rs_cf_splitting on the largest graphs: MaxN nodes, MaxNnz + 1 entries
DensePatterns(m) == {E \in SUBSET (Nodes(m) \X Nodes(m)) : Cardinality(E) = MaxNnz + 1}

InitRSDense ==
  /\ pc = "start" /\ alg = "rs"
  /\ n = MaxN
  /\ \E E \in DensePatterns(n) :
       /\ Sp = CsrP(E, n) /\ Sj = CsrJ(E, "asc")
       /\ Tp = CsrP(Transpose(E), n) /\ Tj = CsrJ(Transpose(E), "asc")
  /\ influence \in Influences(n)
  /\ splitting = [v \in Nodes(n) |-> -1]
  /\ colorflag = 0
  /\ RSIdle /\ CLJPLocalsIdle /\ AuxIdle

SpecRSDense == InitRSDense /\ [][NextRS]_vars

\* cljp_naive_splitting alone
SpecCLJP == InitCLJP /\ [][NextCLJP]_vars

\* cljp_naive_splitting on the graphs of 4 nodes with MaxNnz + 1 edges, none of
\* them a diagonal entry
InitCLJP4 ==
  /\ pc = "start" /\ alg = "cljp"
  /\ n = 4
  /\ \E E \in SUBSET {e \in Nodes(n) \X Nodes(n) : e[1] # e[2]} :
       /\ Cardinality(E) = MaxNnz + 1
       /\ Sp = CsrP(E, n) /\ Sj = CsrJ(E, "asc")
       /\ Tp = CsrP(Transpose(E), n) /\ Tj = CsrJ(Transpose(E), "asc")
  /\ influence = [v \in Nodes(n) |-> 0]
  /\ splitting = [v \in Nodes(n) |-> -1]
  /\ colorflag \in {0, 1}
  /\ RSIdle /\ CLJPLocalsIdle /\ AuxIdle

SpecCLJP4 == InitCLJP4 /\ [][NextCLJP]_vars

\* ------------------------------------------------------------------------
\* Scenario S3: rs_cf_splitting on the 5-node path 0-1-2-3-4, S symmetric
\* without diagonal entries, T = S^T, influence 0; the two entries of the
\* rows 1, 2, 3 of S and of T in either order
SeqToArr(s) == [k \in 0..(Len(s)-1) |-> s[k+1]]

PathRow(r, up) == IF up THEN <<r-1, r+1>> ELSE <<r+1, r-1>>

PathJ(fl) == SeqToArr(<<1>> \o PathRow(1, fl[1]) \o PathRow(2, fl[2])
                           \o PathRow(3, fl[3]) \o <<3>>)

PathP == SeqToArr(<<0, 1, 3, 5, 7, 8>>)

InitS3 ==
  /\ pc = "start" /\ alg = "rs"
  /\ n = 5
  /\ Sp = PathP /\ Tp = PathP
  /\ \E fs \in [1..3 -> BOOLEAN], ft \in [1..3 -> BOOLEAN] :
       Sj = PathJ(fs) /\ Tj = PathJ(ft)
  /\ influence = [v \in Nodes(n) |-> 0]
  /\ splitting = [v \in Nodes(n) |-> -1]
  /\ colorflag = 0
  /\ RSIdle /\ CLJPLocalsIdle /\ AuxIdle

SpecS3 == InitS3 /\ [][NextRS]_vars

\* ------------------------------------------------------------------------
\* classical_strength_of_connection on a matrix of at most MaxN-1 rows and
\* MaxNnz stored entries (zeros may be stored), theta in [0,1]; Sp, Sj, Sx are
\* the caller's buffers of the size of A
Thetas == {<<0, 1>>, <<1, 2>>, <<1, 1>>}

AVals == {-4, -2, 0, 2}

InitSOC ==
  /\ pc = "start" /\ alg = "soc"
  /\ n \in 1..(MaxN-1)
  /\ \E E \in Patterns(n) : \E ord \in Orders :
       /\ Ap = CsrP(E, n) /\ Aj = CsrJ(E, ord)
       /\ Ax \in [0..(Cardinality(E)-1) -> AVals]
       /\ Sj = [k \in 0..(Cardinality(E)-1) |-> -1]
       /\ Sx = [k \in 0..(Cardinality(E)-1) |-> 0]
  /\ theta \in Thetas
  /\ Sp = [r \in 0..n |-> -1]
  /\ nnz = 0
  /\ Tp = <<>> /\ Tj = <<>> /\ influence = <<>> /\ splitting = <<>>
  /\ colorflag = 0
  /\ RSIdle /\ CLJPLocalsIdle /\ InterpIdle /\ AIRIdle /\ RestIdle

SpecSOC == InitSOC /\ [][NextSOC]_vars

\* ------------------------------------------------------------------------
\* the interpolators on a splitting with values in {0,1}: S has at most MaxNnz
\* entries, A has the entries of S or is dense, Sx holds the values of A
AEntry(neg, r, c) ==
  IF r = c THEN 4 ELSE IF neg \/ c < r THEN -1 ELSE 1

InitInterp ==
  /\ pc = "start" /\ alg \in {"direct", "standard"}
  /\ n \in 1..MaxN
  /\ \E E \in Patterns(n), dense \in BOOLEAN, neg \in BOOLEAN :
       LET EA == IF dense THEN Nodes(n) \X Nodes(n) ELSE E
           ASeq == CsrJ(EA, "asc")
           SSeq == CsrJ(E, "asc")
           RowOf(P, p) == CHOOSE r \in Nodes(n) : P[r] <= p /\ p < P[r+1]
       IN /\ Sp = CsrP(E, n) /\ Sj = SSeq
          /\ Ap = CsrP(EA, n) /\ Aj = ASeq
          /\ Ax = [p \in DOMAIN ASeq |-> AEntry(neg, RowOf(CsrP(EA, n), p), ASeq[p])]
          /\ Sx = [p \in DOMAIN SSeq |-> AEntry(neg, RowOf(CsrP(E, n), p), SSeq[p])]
  /\ splitting \in [Nodes(n) -> {F_NODE, C_NODE}]
  /\ Bp = [r \in 0..n |-> -1]
  /\ Bj = <<>> /\ Bx = <<>> /\ wrBj = <<>> /\ wrBx = <<>> /\ remapped = <<>>
  /\ Tp = <<>> /\ Tj = <<>> /\ influence = <<>>
  /\ theta = <<0, 1>> /\ nnz = 0
  /\ colorflag = 0
  /\ RSIdle /\ CLJPLocalsIdle /\ AIRIdle /\ RestIdle

SpecInterp == InitInterp /\ [][NextInterp]_vars

\* ------------------------------------------------------------------------
\* approximate ideal restriction: Cpts lists the C points in increasing order,
\* C has at most MaxNnz entries, all in the rows of C points (the only rows of
\* C that are read), A has the entries of C, their transposes and the diagonal
CptsOf(spl, m) ==
  LET Cs == {v \in Nodes(m) : spl[v] = C_NODE}
  IN [k \in 0..(Cardinality(Cs)-1) |->
        CHOOSE v \in Cs : Cardinality({u \in Cs : u < v}) = k]

\* the values of C: increasing or decreasing along the storage, with stored
\* zeros and negative values, or all equal
CValue(sch, p) ==
  CASE sch = "up"    -> p + 1
    [] sch = "down"  -> 0 - (p + 1)
    [] sch = "mixed" -> (p % 3) - 1
    [] sch = "flat"  -> 1

InitAIR ==
  /\ pc = "start" /\ alg = "air"
  /\ n \in 1..MaxN
  /\ splitting \in [Nodes(n) -> {F_NODE, C_NODE}]
  /\ Cpts = CptsOf(splitting, n)
  /\ \E E \in PatternsIn({v \in Nodes(n) : splitting[v] = C_NODE} \X Nodes(n)),
        sch \in {"up", "down", "mixed", "flat"} :
       LET EA == E \cup Transpose(E) \cup {<<v, v>> : v \in Nodes(n)}
           ASeq == CsrJ(EA, "asc")
           RowOf(p) == CHOOSE r \in Nodes(n) : CsrP(EA, n)[r] <= p /\ p < CsrP(EA, n)[r+1]
       IN /\ C_rowptr = CsrP(E, n) /\ C_colinds = CsrJ(E, "asc")
          /\ C_data = [p \in 0..(Cardinality(E)-1) |-> CValue(sch, p)]
          /\ C_data0 = C_data
          /\ Ap = CsrP(EA, n) /\ Aj = ASeq
          /\ Ax = [p \in DOMAIN ASeq |-> AEntry(TRUE, RowOf(p), ASeq[p])]
  /\ max_row \in 0..(MaxN-1)
  /\ rowptr = [r \in 0..Cpts_size |-> -1]
  /\ colinds = <<>> /\ data = <<>>
  /\ nf_entry = [r \in DOMAIN Cpts |-> 0]
  /\ zeroed = [r \in DOMAIN Cpts |-> {}]
  /\ found = [r \in DOMAIN Cpts |-> 0]
  /\ mismatch = FALSE
  /\ Sp = <<>> /\ Sj = <<>> /\ Sx = <<>> /\ Tp = <<>> /\ Tj = <<>> /\ influence = <<>>
  /\ theta = <<0, 1>> /\ nnz = 0
  /\ colorflag = 0
  /\ RSIdle /\ CLJPLocalsIdle /\ InterpIdle /\ RestIdle

SpecAIR == InitAIR /\ [][NextAIR]_vars

\* ------------------------------------------------------------------------
\* maximum_row_value on a matrix of at most MaxN-1 rows and MaxNnz stored
\* entries; x is the caller's buffer, one entry per row
InitMRV ==
  /\ pc = "start" /\ alg = "mrv"
  /\ n \in 1..(MaxN-1)
  /\ \E E \in Patterns(n) : \E ord \in Orders :
       /\ Ap = CsrP(E, n) /\ Aj = CsrJ(E, ord)
       /\ Ax \in [0..(Cardinality(E)-1) -> AVals]
  /\ mrv_x = [r \in Nodes(n) |-> -1]
  /\ Sp = <<>> /\ Sj = <<>> /\ Sx = <<>> /\ theta = <<0, 1>> /\ nnz = 0
  /\ Tp = <<>> /\ Tj = <<>> /\ influence = <<>> /\ splitting = <<>>
  /\ colorflag = 0
  /\ RSIdle /\ CLJPLocalsIdle /\ InterpIdle /\ AIRIdle /\ CRIdle

SpecMRV == InitMRV /\ [][NextMRV]_vars

\* ------------------------------------------------------------------------
\* cr_helper: A with at most MaxNnz entries, a splitting with values in {0,1},
\* indices as a previous call leaves it (the points of splitting 0 ascending,
\* then the points of splitting 1 descending), thetacs >= 0
IndicesOf(spl, m) ==
  LET Fs == {v \in Nodes(m) : spl[v] = 0}
      Cs == Nodes(m) \ Fs
  IN [k \in 0..m |->
        IF k = 0 THEN Cardinality(Fs)
        ELSE IF k <= Cardinality(Fs)
             THEN CHOOSE v \in Fs : Cardinality({u \in Fs : u < v}) = k - 1
             ELSE CHOOSE v \in Cs : Cardinality({u \in Cs : u > v}) = k - 1 - Cardinality(Fs)]

\* e: all equal, increasing with the node (0 at node 0), or all 0
EValue(sch, v) ==
  CASE sch = "flat" -> 2
    [] sch = "up"   -> 2 * v
    [] sch = "zero" -> 0

InitCR ==
  /\ pc = "start" /\ alg = "cr"
  /\ n \in 1..MaxN
  /\ \E E \in Patterns(n) : Ap = CsrP(E, n) /\ Aj = CsrJ(E, "asc")
  /\ splitting \in [Nodes(n) -> {0, 1}]
  /\ indices = IndicesOf(splitting, n)
  /\ \E sch \in {"flat", "up", "zero"} : cr_e = [v \in Nodes(n) |-> EValue(sch, v)]
  /\ cr_B = [v \in Nodes(n) |-> IF v % 2 = 1 THEN -2 ELSE 1]
  /\ thetacs \in {<<0, 1>>, <<1, 2>>}
  /\ gamma = [v \in Nodes(n) |-> 0]
  /\ cost = <<0, 1>>
  /\ Uindex = <<>> /\ omega = [v \in Nodes(n) |-> 0] /\ inf_norm = 0
  /\ new_pt = -1 /\ n_promoted = 0
  /\ Ax = <<>> /\ Sp = <<>> /\ Sj = <<>> /\ Sx = <<>> /\ theta = <<0, 1>> /\ nnz = 0
  /\ Tp = <<>> /\ Tj = <<>> /\ influence = <<>>
  /\ colorflag = 0
  /\ RSIdle /\ CLJPLocalsIdle /\ InterpIdle /\ AIRIdle /\ MRVIdle

SpecCR == InitCR /\ [][NextCR]_vars

\* ------------------------------------------------------------------------
\* Properties

\* C1: when rs_cf_splitting or cljp_naive_splitting has returned, every entry
\* of splitting is F_NODE or C_NODE; no U_NODE or PRE_F_NODE is left.
C1_FinalLabels ==
  (pc = "done" /\ alg \in {"rs", "cljp"}) =>
     \A v \in Nodes(n) : splitting[v] \in {F_NODE, C_NODE}

\* a returned RS run in which a node that was U_NODE after the initialization
\* ended as F_NODE and another node as C_NODE
C1_Witness ==
  /\ pc = "done" /\ alg = "rs"
  /\ \E v \in Nodes(n) : init_splitting[v] = U_NODE /\ splitting[v] = F_NODE
  /\ \E v \in Nodes(n) : splitting[v] = C_NODE

\* the largest magnitude among the off-diagonal entries of row r of A, 0 if
\* the row has none
MaxOffdiagonalOf(r) ==
  MaxOf({mynorm(Ax[p]) : p \in {q \in Ap[r]..(Ap[r+1]-1) : Aj[q] # r}} \cup {0})

\* entry p of row r is the diagonal, or |A[i,j]| >= theta * max_{k # i} |A[i,k]|
KeptByFilter(r, p) ==
  \/ Aj[p] = r
  \/ mynorm(Ax[p]) * theta[2] >= theta[1] * MaxOffdiagonalOf(r)

RECURSIVE FilteredRow(_, _, _)
FilteredRow(r, p, last) ==
  IF p >= last THEN <<>>
  ELSE (IF KeptByFilter(r, p) THEN << <<Aj[p], Ax[p]>> >> ELSE <<>>)
       \o FilteredRow(r, p+1, last)

SRowOf(r) == [k \in 1..(Sp[r+1] - Sp[r]) |-> <<Sj[Sp[r]+k-1], Sx[Sp[r]+k-1]>>]

\* C2: for theta in [0,1], row i of S is row i of A restricted to the entries
\* with j = i or |A[i,j]| >= theta * max_{k # i} |A[i,k]|, in the same order
\* and with the values unchanged, also for a row without off-diagonal entries
\* and for a row whose off-diagonal entries all have magnitude 0.
C2_RowFilter ==
  (alg = "soc" /\ pc = "done") =>
     \A r \in Nodes(n) : SRowOf(r) = FilteredRow(r, Ap[r], Ap[r+1])

\* C3: the set D selected by one pass of cljp_naive_splitting contains no two
\* distinct nodes joined by an entry of S or of T.
C3_IndependentSet ==
  (alg = "cljp" /\ pc \in {"p5", "while"} /\ pass > 0 /\ iD = 0) =>
     \A a \in Nodes(n), b \in Nodes(n) :
        (a # b /\ D[a] = 1 /\ D[b] = 1) => ~Adjacent(a, b)

\* C4: every pass of the while loop of cljp_naive_splitting promotes at least
\* one U_NODE to C_NODE, so unassigned strictly decreases; the loop has run at
\* most n passes, it is left to run while a node is unassigned, and the
\* function returns with unassigned = 0.
C4_Progress ==
  alg = "cljp" =>
     /\ (pass > 0 /\ pc \in {"p5", "p6", "while"}) => nD >= 1
     /\ (pass > 0 /\ pc = "while") => unassigned < prev_unassigned
     /\ pass <= n
     /\ (pc = "while" /\ unassigned > 0) => pass < n
     /\ pc = "done" => unassigned = 0

\* a returned CLJP run that took at least two passes
C4_Witness == alg = "cljp" /\ pc = "done" /\ pass >= 2 /\ unassigned = 0 /\ n >= 2

\* map[i] = #{k < i : splitting[k] = 1}
MapOf(v) == Cardinality({k \in Nodes(n) : k < v /\ splitting[k] = C_NODE})

\* the column indices stored in row r of P
PRowCols(r) == {Bj[s] : s \in Bp[r]..(Bp[r+1]-1)}

\* the strong C neighbours of row r: (r,j) in S, j # r, splitting[j] = C_NODE
StrongCNeighbors(r) ==
  {Sj[p] : p \in {q \in Sp[r]..(Sp[r+1]-1) : Sj[q] # r /\ splitting[Sj[q]] = C_NODE}}

C6_Pass2Agrees ==
  (alg = "air" /\ pc = "done") =>
     /\ ~mismatch
     /\ \A r \in DOMAIN Cpts :
          /\ found[r] = rowptr[r+1] - rowptr[r] - 1
          /\ colinds[rowptr[r+1] - 1] = Cpts[r]
          /\ data[rowptr[r+1] - 1].kind = "one"

\* a finished run in which pass1 zeroed entries of a row that kept neighbours
C6_Witness ==
  /\ alg = "air" /\ pc = "done"
  /\ \E r \in DOMAIN Cpts : found[r] >= 1 /\ zeroed[r] # {}

\* C7: for max_row >= 0, after pass1 every row of R has
\* rowptr[row+1] - rowptr[row] = 1 + min(|N_f|, max_row) <= max_row + 1,
\* N_f being the strong F neighbourhood on entry to the row's processing.
C7_RowLength ==
  (alg = "air" /\ pc \in {"air2", "done"} /\ max_row >= 0) =>
     \A r \in DOMAIN Cpts :
        /\ rowptr[r+1] - rowptr[r] =
              1 + (IF nf_entry[r] < max_row THEN nf_entry[r] ELSE max_row)
        /\ rowptr[r+1] - rowptr[r] <= max_row + 1

\* pass1 is over and a row was truncated to max_row >= 1 neighbours, another
\* row, if any, was not
C7_Witness ==
  /\ alg = "air" /\ pc = "air2" /\ max_row >= 1
  /\ \E r \in DOMAIN Cpts : nf_entry[r] > max_row

\* the strong F neighbourhood of row r of R in the C_data passed to pass1
NfOf(r) ==
  {p \in C_rowptr[Cpts[r]]..(C_rowptr[Cpts[r]+1]-1) :
     splitting[C_colinds[p]] = F_NODE /\ C_data0[p] # 0}

\* C8: when |N_f| > max_row, exactly |N_f| - max_row entries of the row are
\* set to 0, and no zeroed entry is stronger, in the ordering by C_data value
\* used for the sort, than a retained entry.
C8_WeakestZeroed ==
  (alg = "air" /\ pc \in {"air2", "done"}) =>
     \A r \in DOMAIN Cpts :
        nf_entry[r] > max_row =>
           /\ Cardinality(zeroed[r]) = nf_entry[r] - max_row
           /\ \A z \in zeroed[r], k \in NfOf(r) \ zeroed[r] : ~(C_data0[z] > C_data0[k])

\* C9: a node labelled F_NODE by the initialization of rs_cf_splitting is
\* never promoted: it is F_NODE in every later state, and at the return.
C9_InitialFStays ==
  (alg = "rs" /\ pc # "start") =>
     \A v \in Nodes(n) : init_splitting[v] = F_NODE => splitting[v] = F_NODE

\* C10: on the 5-node path without diagonal and with influence 0, the lambda
\* values are [1,2,2,2,1] when the loop starts and rs_cf_splitting returns
\* splitting = [0,1,0,1,0].
C10_PathResult ==
  /\ (pc = "loop" /\ top_index = n - 1) => lambda = SeqToArr(<<1, 2, 2, 2, 1>>)
  /\ pc = "done" => splitting = SeqToArr(<<0, 1, 0, 1, 0>>)

\* the run on the path has returned, no node having been F_NODE after the
\* initialization
C10_Witness ==
  /\ pc = "done" /\ alg = "rs" /\ Sp = PathP /\ Tp = PathP
  /\ \A v \in Nodes(n) : init_splitting[v] = U_NODE

\* C10 as stated: the run on the path returns splitting = [0,0,1,0,0].
C10_AsStated ==
  pc = "done" => splitting = SeqToArr(<<0, 0, 1, 0, 0>>)

\* C11: maximum_row_value sets x[i] to the maximum of mynorm(A[i,j]) over the
\* stored entries of row i, and for an empty row to minus infinity, a value
\* below every magnitude; a row of entries of magnitude 0 gives x[i] = 0.
C11_RowMaximum ==
  (alg = "mrv" /\ pc = "done") =>
     \A r \in Nodes(n) :
        IF Ap[r] = Ap[r+1] THEN mrv_x[r] < 0
        ELSE mrv_x[r] = MaxOf({mynorm(Ax[p]) : p \in Ap[r]..(Ap[r+1]-1)})

C18_PromotedOnce ==
  (alg = "cr" /\ pc = "cr_loop" /\ n_promoted > 0) =>
     /\ omega[new_pt] = 0
     /\ n_promoted <= Len(Uindex)

\* positions and nodes of the interval of priority l
BucketPos(l) == {interval_ptr[l] + q : q \in 0..(interval_count[l]-1)}
Bucket(l) == {index_to_node[p] : p \in BucketPos(l) \cap Nodes(n)}

\* C13: at the start of every iteration of the main loop of rs_cf_splitting and
\* for every priority l, the nodes at the positions interval_ptr[l] + j,
\* 0 <= j < interval_count[l], are exactly the U_NODE nodes of priority l.
C13_BucketsHoldU ==
  (alg = "rs" /\ pc = "loop" /\ top_index # -1) =>
     \A l \in 0..(lambda_max-1) :
        /\ BucketPos(l) \subseteq Nodes(n)
        /\ Bucket(l) = {v \in Nodes(n) : splitting[v] = U_NODE /\ lambda[v] = l}

\* the positions not yet visited: at the start of an iteration 0..top_index,
\* within an iteration the node at top_index has left its interval
Unvisited == IF pc = "loop" THEN 0..top_index ELSE 0..(top_index-1)

\* C14: after the counting sort and after every swap or move, index_to_node
\* and node_to_index are mutually inverse permutations of 0..n-1; over the
\* positions not yet visited the nodes of equal lambda occupy the interval
\* [interval_ptr[lambda], interval_ptr[lambda] + interval_count[lambda]), a
\* higher lambda lies at higher positions, and the node at top_index has the
\* largest lambda of the nodes not yet visited.
C14_SortedIntervals ==
  (alg = "rs" /\ pc \in {"loop", "tloop", "kloop", "sloop"}) =>
     /\ \A k \in Nodes(n) : index_to_node[k] \in Nodes(n) /\ node_to_index[index_to_node[k]] = k
     /\ \A v \in Nodes(n) : node_to_index[v] \in Nodes(n) /\ index_to_node[node_to_index[v]] = v
     /\ \A l \in 0..(lambda_max-1) :
           {p \in Unvisited : lambda[index_to_node[p]] = l} = BucketPos(l)
     /\ \A p, q \in Unvisited : p < q => lambda[index_to_node[p]] <= lambda[index_to_node[q]]
     /\ (pc = "loop" /\ top_index # -1) =>
           \A p \in 0..top_index : lambda[index_to_node[p]] <= lambda[index_to_node[top_index]]

C14_Witness ==
  /\ alg = "rs" /\ pc = "loop" /\ top_index \in 1..(n-2)
  /\ lambda # Lambda0
  /\ \E p, q \in 0..top_index : lambda[index_to_node[p]] < lambda[index_to_node[q]]

\* C15: in every iteration of the main loop that selects a C point, the node
\* labelled C_NODE was U_NODE immediately before and is the highest-numbered
\* of the U_NODE nodes whose priority is that of the node at top_index.
C15_TieBreak ==
  [][(alg = "rs" /\ pc = "loop" /\ pc' = "tloop") =>
        /\ splitting[i'] = U_NODE
        /\ \A v \in Nodes(n) :
              (splitting[v] = U_NODE /\ lambda[v] = lambda[index_to_node[top_index]])
                 => v <= i']_vars

\* C16: with influence >= 0 every lambda[k] stays in [0, lambda_max - 1]: an
\* increment never happens at lambda[k] >= n-1 and a decrement never at 0; every
\* index about to be used in interval_ptr and interval_count is in
\* [0, lambda_max) and every position about to be used in index_to_node is in
\* [0, n).
C16_IndicesInRange ==
  /\ []((alg = "rs" /\ pc \in {"loop", "tloop", "kloop", "sloop"}) =>
          /\ \A v \in Nodes(n) : lambda[v] \in 0..(lambda_max-1)
          /\ (pc = "loop" /\ top_index # -1) =>
                LET l == lambda[index_to_node[top_index]]
                IN \A p \in interval_ptr[l]..(interval_ptr[l] + interval_count[l] - 2) :
                      p \in Nodes(n)
          /\ (pc = "kloop" /\ kk < Sp[j+1] /\ splitting[Sj[kk]] = U_NODE /\ ~Clamped(Sj[kk])) =>
                LET l == lambda[Sj[kk]]
                IN /\ l + 1 \in 0..(lambda_max-1)
                   /\ node_to_index[Sj[kk]] \in Nodes(n)
                   /\ interval_ptr[l] + interval_count[l] - 1 \in Nodes(n)
          /\ (pc = "sloop" /\ jj < Sp[i+1] /\ splitting[Sj[jj]] = U_NODE /\ lambda[Sj[jj]] # 0) =>
                LET l == lambda[Sj[jj]]
                IN /\ l - 1 \in 0..(lambda_max-1)
                   /\ node_to_index[Sj[jj]] \in Nodes(n)
                   /\ interval_ptr[l] \in Nodes(n))
  /\ [][(alg = "rs" /\ pc # "start") =>
          \A v \in Nodes(n) :
             /\ lambda'[v] > lambda[v] => lambda[v] < n - 1
             /\ lambda'[v] < lambda[v] => lambda[v] > 0]_vars

\* a U_NODE entry k of lambda[k] >= n-1 met by the increment loop
C16_Witness ==
  /\ alg = "rs" /\ pc = "kloop" /\ kk < Sp[j+1]
  /\ splitting[Sj[kk]] = U_NODE /\ lambda[Sj[kk]] >= n - 1

\* C17: the initialization of rs_cf_splitting labels node v F_NODE exactly when
\* lambda[v] = 0, or lambda[v] = 1 and T-row v is the single entry v; every
\* other node is U_NODE (a node with an empty T-row and influence 1 among them).
C17_InitLabels ==
  (alg = "rs" /\ pc # "start") =>
     \A v \in Nodes(n) :
        init_splitting[v] =
           IF Lambda0[v] = 0
              \/ (Lambda0[v] = 1 /\ Tp[v+1] - Tp[v] = 1 /\ Tj[Tp[v]] = v)
           THEN F_NODE ELSE U_NODE

\* C20: when rs_cf_splitting returns, every node v that was U_NODE after the
\* initialization and is F_NODE at the end lies in the T-row of a node c # v
\* with splitting[c] = C_NODE; a node labelled C_NODE is never relabelled.
C20_FDependsOnC ==
  /\ []((alg = "rs" /\ pc = "done") =>
          \A v \in Nodes(n) :
             (init_splitting[v] = U_NODE /\ splitting[v] = F_NODE) =>
                \E c \in Nodes(n) \ {v} :
                   /\ splitting[c] = C_NODE
                   /\ \E p \in Tp[c]..(Tp[c+1]-1) : Tj[p] = v)
  /\ [][alg = "rs" =>
          \A v \in Nodes(n) : (pc # "start" /\ splitting[v] = C_NODE) => splitting'[v] = C_NODE]_vars

C20_Witness ==
  /\ alg = "rs" /\ pc = "done"
  /\ \E v \in Nodes(n) : init_splitting[v] = U_NODE /\ splitting[v] = F_NODE
  /\ Cardinality({v \in Nodes(n) : splitting[v] = C_NODE}) >= 2

\* the row of S that holds position p, and membership in a row of T
SRowOfPos(p) == CHOOSE r \in Nodes(n) : Sp[r] <= p /\ p < Sp[r+1]
InTRow(v, c) == \E q \in Tp[c]..(Tp[c+1]-1) : Tj[q] = v

\* the positions of S whose edge the step removes
Removed == {p \in 0..(Sp[n]-1) : edgemark[p] # 0 /\ edgemark'[p] = 0}

\* C19: in step P6 of cljp_naive_splitting for a new C point c, an edge (j,k)
\* of S is removed only if j and k are both in T-row c and k was U_NODE when the
\* cache of c was filled (c_dep_cache[k] = c), whatever the label of j: the
\* S-row of every entry j of T-row c is scanned; weight[k] is decremented once
\* for every edge (j,k) removed and not otherwise.
C19_P6Removals ==
  [][(alg = "cljp" /\ pc = "p6") =>
        /\ \A p \in Removed :
              LET c == Dlist[iD]
                  r == SRowOfPos(p)
                  k == Sj[p]
              IN /\ InTRow(r, c) /\ InTRow(k, c)
                 /\ splitting[k] = U_NODE
                 /\ c_dep_cache'[k] = c
        /\ \A k \in Nodes(n) :
              weight[k] - weight'[k] = scale * Cardinality({p \in Removed : Sj[p] = k})]_vars

\* an edge removed from the row of a node that was never cached
C19_Witness ==
  /\ alg = "cljp" /\ pc = "while"
  /\ \E p \in 0..(Sp[n]-1) :
        /\ edgemark[p] = 0
        /\ splitting[SRowOfPos(p)] = F_NODE
        /\ c_dep_cache[SRowOfPos(p)] = -1

\* C19 as stated: an edge (j,k) is removed in P6 only if, besides, j was U_NODE
\* when the cache of c was filled (c_dep_cache[j] = c).
C19_AsStated ==
  [][(alg = "cljp" /\ pc = "p6") =>
        \A p \in Removed :
           LET c == Dlist[iD]
               r == SRowOfPos(p)
               k == Sj[p]
           IN /\ InTRow(r, c) /\ InTRow(k, c)
              /\ splitting[r] = U_NODE /\ splitting[k] = U_NODE
              /\ c_dep_cache'[r] = c /\ c_dep_cache'[k] = c]_vars

\* the off-diagonal entries (a,k) of S whose edgemark is 1
LiveInEdges(k) ==
  {p \in 0..(Sp[n]-1) : Sj[p] = k /\ SRowOfPos(p) # k /\ edgemark[p] = 1}

\* C21: throughout cljp_naive_splitting, for every node k that is U_NODE,
\* weight[k] minus its seed is the number of entries (a,k) of S with a # k whose
\* edgemark is 1; every decrement of weight[k] removes one distinct
\* off-diagonal edge into k, and a diagonal entry (k,k) causes no decrement.
C21_WeightCountsLiveEdges ==
  /\ []((alg = "cljp" /\ pc \in {"while", "p5", "p6"}) =>
          \A k \in Nodes(n) :
             splitting[k] = U_NODE =>
                weight[k] - seed[k] = scale * Cardinality(LiveInEdges(k)))
  /\ [][(alg = "cljp" /\ pc \in {"p5", "p6"}) =>
          \A k \in Nodes(n) :
             weight[k] - weight'[k] =
                scale * Cardinality({p \in Removed : Sj[p] = k /\ SRowOfPos(p) # k})]_vars

====
